---- MODULE Spec2Model ----
(***************************************************************************)
(* Forecasting pipeline, run registries and champion promotion of the      *)
(* pmo_forcasting / pmo_forecasting packages.                               *)
(*                                                                         *)
(* Strings that the code builds by formatting (run keys, run directories,  *)
(* champion folder names) are sequences of tokens, so that two different   *)
(* (name, run_id) pairs can format to the same text, as in Python.         *)
(* Floats are small integers; NaN is a separate value that every ordering  *)
(* comparison answers FALSE for.                                           *)
(***************************************************************************)
EXTENDS Integers, Sequences, FiniteSets, TLC

VARIABLES
    clock,          \* wall clock, in seconds (datetime.utcnow())
    models,         \* ForecastingPipeline.models, the requested list
    registry_kind,  \* which ModelRegistry class the pipeline was given
    pc,             \* position of ForecastingPipeline.run: "idle" | "loop"
    idx,            \* position of the for loop in self.models (1-based)
    run_id,         \* run_id of the run in progress
    data_overlap,   \* whether data_bundle's arima_train / arima_test overlap
    results,        \* the results dict of the run in progress
    ret,            \* what the call that has just returned gave its caller
                    \* (value or exception); NoCall after any other step
    _runs,          \* pmo_forecasting ModelRegistry._runs (insertion ordered)
    disk,           \* run directories under ModelRegistry.base_dir
    best_dir,       \* folders under BEST_MODEL_DIR
    nruns,          \* number of run() calls started so far
    nregs,          \* number of register() calls made on the persisting registry
    caught,         \* message of the exception the loop's except clause caught
                    \* in the latest iteration (None: nothing was raised)
    _models,        \* pmo_forcasting ModelRegistry._models
    _metadata,      \* pmo_forcasting ModelRegistry._metadata
    _metrics,       \* pmo_forcasting ModelRegistry._metrics
    assets,         \* the tickers of config["assets"], in order
    market_kind,    \* which market data class run() is called on
    output_dir,     \* the CSV files of the output directory, by ticker
    ncalls          \* number of market data run() calls made so far

vars == <<clock, models, registry_kind, pc, idx, run_id, data_overlap,
          results, ret, _runs, disk, best_dir, nruns, nregs, caught,
          _models, _metadata, _metrics, assets, market_kind, output_dir, ncalls>>

marketVars == <<assets, market_kind, output_dir, ncalls>>

pipeVars == <<clock, models, pc, idx, run_id, data_overlap, results, nruns, caught>>
memVars == <<_models, _metadata, _metrics>>

(***************************************************************************)
(* Bounds                                                                  *)
(***************************************************************************)
MaxModels == 2
MaxRegs == 3
MaxCompared == 2
MaxRuns == 2

None == "None"
NaN == -1

(***************************************************************************)
(* Python dict: insertion-ordered keys, a value per key.                   *)
(***************************************************************************)
EmptyDict == [keys |-> <<>>, val |-> [k \in {} |-> None]]

HasKey(d, k) == k \in DOMAIN d.val

DictSet(d, k, v) ==
    [keys |-> IF HasKey(d, k) THEN d.keys ELSE Append(d.keys, k),
     val  |-> [x \in (DOMAIN d.val) \cup {k} |-> IF x = k THEN v ELSE d.val[x]]]

DictValues(d) == [n \in 1..Len(d.keys) |-> d.val[d.keys[n]]]

(***************************************************************************)
(* pmo_forecasting.forecasting.registry.ModelRegistry (persisting)         *)
(***************************************************************************)
RunKey(name, rid) == name \o <<"::">> \o rid

RunPath(name, rid) == name \o <<"_">> \o rid

Framework(model) == IF model.keras THEN "keras" ELSE "pickle"

ModelFile(model) == IF model.keras THEN "model.keras" ELSE "model.pkl"

JsonDumps(x) == <<"json", x>>

EmptyDir == [f \in {} |-> None]

WriteFile(dir, file, content) ==
    [f \in (DOMAIN dir) \cup {file} |-> IF f = file THEN content ELSE dir[f]]

PutDir(dsk, path, dir) ==
    [p \in (DOMAIN dsk) \cup {path} |-> IF p = path THEN dir ELSE dsk[p]]

RegisterFaults == {"none", "mkdir", "model", "metrics", "config"}

RunEntry(name, rid, model, metrics, config) ==
    [name |-> name, run_id |-> rid, framework |-> Framework(model),
     model_file |-> ModelFile(model), path |-> RunPath(name, rid),
     metrics |-> metrics, config |-> config, model |-> model]

\* a register() that keeps the entry a key already has (dict.setdefault in
\* place of the item assignment)
Register_KeepsFirst(rs, dsk, name, rid, model, metrics, config, fault) ==
    LET path == RunPath(name, rid)
        d0 == IF path \in DOMAIN dsk THEN dsk[path] ELSE EmptyDir
        d3 == WriteFile(WriteFile(WriteFile(d0, ModelFile(model), model),
                                  "metrics.json", JsonDumps(metrics)),
                        "config.json", JsonDumps(config))
    IN  IF fault # "none"
        THEN [exc |-> "TypeError", runs |-> rs, disk |-> dsk]
        ELSE [exc |-> None,
              runs |-> IF HasKey(rs, RunKey(name, rid)) THEN rs
                       ELSE DictSet(rs, RunKey(name, rid),
                                    RunEntry(name, rid, model, metrics, config)),
              disk |-> PutDir(dsk, path, d3)]

\* register(): the files are written in the code's order, up to the step
\* that raises (fault); the entry is stored last.
Register(rs, dsk, name, rid, model, metrics, config, fault) ==
    LET path == RunPath(name, rid)
        d0 == IF path \in DOMAIN dsk THEN dsk[path] ELSE EmptyDir
        d1 == WriteFile(d0, ModelFile(model), model)
        d2 == WriteFile(d1, "metrics.json", JsonDumps(metrics))
        d3 == WriteFile(d2, "config.json", JsonDumps(config))
    IN  CASE fault = "mkdir" ->
               [exc |-> "FileNotFoundError", runs |-> rs, disk |-> dsk]
          [] fault = "model" ->
               [exc |-> "PicklingError", runs |-> rs, disk |-> PutDir(dsk, path, d0)]
          [] fault = "metrics" ->
               [exc |-> "TypeError", runs |-> rs, disk |-> PutDir(dsk, path, d1)]
          [] fault = "config" ->
               [exc |-> "TypeError", runs |-> rs, disk |-> PutDir(dsk, path, d2)]
          [] OTHER ->
               [exc |-> None,
                runs |-> DictSet(rs, RunKey(name, rid),
                                 RunEntry(name, rid, model, metrics, config)),
                disk |-> PutDir(dsk, path, d3)]

(***************************************************************************)
(* pmo_forcasting.forecasting.pipeline.ForecastingPipeline                 *)
(***************************************************************************)
ModelNames == {"arima", "lstm", "bogus"}

RECURSIVE ListsUpTo(_, _)
ListsUpTo(S, n) ==
    IF n = 0 THEN {<<>>}
    ELSE LET shorter == ListsUpTo(S, n - 1)
         IN  shorter \cup {Append(l, x) : l \in {t \in shorter : Len(t) = n - 1}, x \in S}

\* datetime.utcnow().strftime("%Y%m%d_%H%M%S"): the date, "_", the time
Stamp(t) == <<"D", "_", ToString(t)>>

Metrics3(a, b, c) == [MAE |-> a, RMSE |-> b, MAPE |-> c]

\* what evaluate() can return: three floats, NaN where not computable
EvalOutputs == {Metrics3(1, 1, 1), Metrics3(2, 2, NaN)}

\* the step of register() that raises while the pipeline runs (the registry's
\* own specification injects every one of RegisterFaults)
PipelineFaults == {"none", "mkdir"}

\* the stage of a model's sequence whose underlying call raises
StageFaults == {"none", "build", "train", "forecast", "evaluate"}

ArimaModel == [keras |-> FALSE, id |-> "arima"]
LstmModel == [keras |-> TRUE, id |-> "lstm"]

\* registry.register(name=, run_id=, model=, metrics=, config=) on the registry
\* the pipeline holds; the in-memory class takes (name, model, metadata) only
PipelineRegister(name, rid, model, metrics, config, fault) ==
    IF registry_kind = "memory"
    THEN [exc |-> "register() got an unexpected keyword argument 'run_id'",
          runs |-> _runs, disk |-> disk]
    ELSE Register(_runs, disk, name, rid, model, metrics, config, fault)

Raised(msg) == [exc |-> msg, value |-> None, runs |-> _runs, disk |-> disk]

_run_arima(fault, m, regfault) ==
    IF data_overlap THEN Raised("ARIMA train/test split overlaps in time")
    ELSE CASE fault = "build"    -> Raised("ARIMA building failed: e")
           [] fault = "train"    -> Raised("ARIMA training failed: e")
           [] fault = "forecast" -> Raised("ARIMA forecasting failed: e")
           [] fault = "evaluate" -> Raised("e")
           [] OTHER ->
                LET r == PipelineRegister(<<"arima", "_">> \o run_id, run_id,
                                          ArimaModel, m, "arima_cfg", regfault)
                IN  [exc |-> r.exc, value |-> m, runs |-> r.runs, disk |-> r.disk]

_run_lstm(fault, m, regfault) ==
    CASE fault = "build"    -> Raised("LSTM model building failed: e")
      [] fault = "train"    -> Raised("e")
      [] fault = "forecast" -> Raised("e")
      [] fault = "evaluate" -> Raised("e")
      [] OTHER ->
           LET r == PipelineRegister(<<"lstm", "_">> \o run_id, run_id,
                                     LstmModel, m, "lstm_cfg", regfault)
           IN  [exc |-> r.exc, value |-> m, runs |-> r.runs, disk |-> r.disk]

\* a returned call: the operation, its arguments, the exception it raised
\* (None: it returned) and the value it returned
Called(op, args, exc, value) == <<op, args, exc, value>>

CallOp(c) == c[1]

CallArgs(c) == c[2]

CallExc(c) == c[3]

CallValue(c) == c[4]

NoCall == Called(None, <<>>, None, None)

ErrorPayload(msg) == [error |-> msg]

IsError(payload) == "error" \in DOMAIN payload

\* a loop body without the except clause: the exception ends run()
Iteration_Propagates(name, r) ==
    /\ caught' = r.exc
    /\ _runs' = r.runs
    /\ disk' = r.disk
    /\ IF r.exc = None
       THEN /\ results' = DictSet(results, name, r.value)
            /\ idx' = idx + 1
            /\ UNCHANGED <<pc, run_id, data_overlap, ret>>
       ELSE /\ ret' = Called("run", run_id, r.exc, None)
            /\ pc' = "idle"
            /\ idx' = 1
            /\ run_id' = <<>>
            /\ data_overlap' = FALSE
            /\ results' = EmptyDict
    /\ UNCHANGED <<clock, models, registry_kind, best_dir, nruns, nregs, memVars, marketVars>>

\* an except clause that only logs: a failed model gets no entry
Iteration_DropsError(name, r) ==
    /\ results' = IF r.exc = None THEN DictSet(results, name, r.value) ELSE results
    /\ caught' = r.exc
    /\ _runs' = r.runs
    /\ disk' = r.disk
    /\ idx' = idx + 1
    /\ UNCHANGED <<clock, models, registry_kind, pc, run_id, data_overlap, ret,
                   best_dir, nruns, nregs, memVars, marketVars>>

\* one iteration of the for loop whose body ran _run_arima or _run_lstm
Iteration(name, r) ==
    /\ results' = DictSet(results, name,
                          IF r.exc = None THEN r.value ELSE ErrorPayload(r.exc))
    /\ caught' = r.exc
    /\ _runs' = r.runs
    /\ disk' = r.disk
    /\ idx' = idx + 1
    /\ UNCHANGED <<clock, models, registry_kind, pc, run_id, data_overlap, ret,
                   best_dir, nruns, nregs, memVars, marketVars>>

InLoop == pc = "loop" /\ idx <= Len(models)

\* Time passes. run() reads the clock once, at its start, so the seconds that
\* pass while a run is in progress are counted when it has returned; only
\* whether the second changed since the previous run's start matters.
Tick ==
    /\ pc = "idle"
    /\ clock < nruns
    /\ nruns < MaxRuns
    /\ clock' = clock + 1
    /\ ret' = NoCall
    /\ UNCHANGED <<models, registry_kind, pc, idx, run_id, data_overlap, results,
                   caught, _runs, disk, best_dir, nruns, nregs, memVars, marketVars>>

RunStart ==
    /\ pc = "idle"
    /\ nruns < MaxRuns
    /\ nruns' = nruns + 1
    /\ data_overlap' \in BOOLEAN
    /\ run_id' = Stamp(clock)
    /\ results' = EmptyDict
    /\ caught' = None
    /\ idx' = 1
    /\ pc' = "loop"
    /\ ret' = NoCall
    /\ UNCHANGED <<clock, models, registry_kind, _runs, disk, best_dir, nregs, memVars, marketVars>>

StepArima ==
    /\ InLoop /\ models[idx] = "arima"
    /\ \E fault \in StageFaults, m \in EvalOutputs, rf \in PipelineFaults :
          Iteration("arima", _run_arima(fault, m, rf))

StepLstm ==
    /\ InLoop /\ models[idx] = "lstm"
    /\ \E fault \in StageFaults, m \in EvalOutputs, rf \in PipelineFaults :
          Iteration("lstm", _run_lstm(fault, m, rf))

\* an else branch that records an error payload for an unknown name
StepUnknown_RecordsError ==
    /\ pc = "loop" /\ idx <= Len(models) /\ models[idx] \notin {"arima", "lstm"}
    /\ results' = DictSet(results, models[idx], [error |-> "Unknown model type"])
    /\ caught' = None
    /\ idx' = idx + 1
    /\ UNCHANGED <<clock, models, registry_kind, pc, run_id, data_overlap,
                   ret, _runs, disk, best_dir, nruns, nregs, memVars, marketVars>>

StepUnknown ==
    /\ InLoop /\ models[idx] \notin {"arima", "lstm"}
    /\ caught' = None
    /\ idx' = idx + 1
    /\ UNCHANGED <<clock, models, registry_kind, pc, run_id, data_overlap, results,
                   ret, _runs, disk, best_dir, nruns, nregs, memVars, marketVars>>

\* return results: the locals of the call are gone, the caller holds the dict
RunReturn ==
    /\ pc = "loop" /\ idx > Len(models)
    /\ ret' = Called("run", run_id, None, results)
    /\ pc' = "idle"
    /\ idx' = 1
    /\ run_id' = <<>>
    /\ data_overlap' = FALSE
    /\ results' = EmptyDict
    /\ caught' = None
    /\ UNCHANGED <<clock, models, registry_kind, _runs, disk, best_dir, nruns, nregs, memVars, marketVars>>

BaseInit ==
    /\ clock = 0
    /\ models \in ListsUpTo(ModelNames, MaxModels)
    /\ registry_kind \in {"disk", "memory"}
    /\ pc = "idle"
    /\ idx = 1
    /\ run_id = <<>>
    /\ data_overlap = FALSE
    /\ results = EmptyDict
    /\ nruns = 0
    /\ nregs = 0
    /\ caught = None
    /\ ret = NoCall
    /\ _runs = EmptyDict
    /\ disk = [p \in {} |-> EmptyDir]
    /\ best_dir = [p \in {} |-> EmptyDir]
    /\ _models = EmptyDict
    /\ _metadata = EmptyDict
    /\ _metrics = EmptyDict

\* no market data object has been made
Init ==
    /\ BaseInit
    /\ assets = <<>>
    /\ market_kind = "downloader"
    /\ output_dir = EmptyDir
    /\ ncalls = 0

Next ==
    \/ Tick
    \/ RunStart
    \/ StepArima
    \/ StepLstm
    \/ StepUnknown
    \/ RunReturn

Spec == Init /\ [][Next]_vars

(***************************************************************************)
(* pmo_forcasting.forecasting.registry.ModelRegistry (in memory)           *)
(***************************************************************************)
MaxValue == 2

MemNames == {"A", "B"}

MetricNames == {"RMSE", "MAE"}

Values == 1..MaxValue

EmptyMap == [k \in {} |-> NaN]

\* register(name, model, metadata): the (model, metadata) arguments; given
\* is FALSE when metadata is left at its default, None
MemPayloads == {[model |-> "m1", given |-> FALSE, metadata |-> EmptyMap],
                [model |-> "m2", given |-> TRUE, metadata |-> [type |-> "LSTM"]]}

\* the dicts update_metrics() is called with
MetricUpdates ==
    {[k \in {"RMSE"} |-> v] : v \in Values \cup {NaN}} \cup {[k \in {"MAE"} |-> 1]}

\* dict.update
Update(m, u) == [k \in (DOMAIN m) \cup (DOMAIN u) |-> IF k \in DOMAIN u THEN u[k] ELSE m[k]]

\* float comparison: every comparison with NaN is False
Lt(a, b) == a # NaN /\ b # NaN /\ a < b

Gt(a, b) == a # NaN /\ b # NaN /\ a > b

\* min(scores, key=scores.get) / max(...): the first key is kept until a
\* later one compares strictly better
RECURSIVE PyBest(_, _, _, _)
PyBest(keys, score, minimize, best) ==
    IF keys = <<>> THEN best
    ELSE LET k == Head(keys)
             better == IF minimize THEN Lt(score[k], score[best])
                                   ELSE Gt(score[k], score[best])
         IN  PyBest(Tail(keys), score, minimize, IF better THEN k ELSE best)

\* the names of scores, in _metrics' insertion order
ScoreKeys(metric) ==
    SelectSeq(_metrics.keys, LAMBDA n : metric \in DOMAIN _metrics.val[n])

Scores(metric) ==
    [n \in {x \in DOMAIN _metrics.val : metric \in DOMAIN _metrics.val[x]} |->
        _metrics.val[n][metric]]

\* get_best(metric, minimize): the value returned or the exception raised
get_best(metric, minimize) ==
    IF _metrics.keys = <<>>
    THEN [exc |-> "ValueError: No metrics available for model selection", value |-> None]
    ELSE IF ScoreKeys(metric) = <<>>
    THEN [exc |-> "ValueError: No models contain metric", value |-> None]
    ELSE LET keys == ScoreKeys(metric)
             best_name == PyBest(Tail(keys), Scores(metric), minimize, Head(keys))
         IN  [exc |-> None,
              value |-> [name |-> best_name,
                         model |-> _models.val[best_name],
                         metadata |-> _metadata.val[best_name],
                         metrics |-> _metrics.val[best_name]]]

_assert_exists(name) == HasKey(_models, name)

KeyErrorNotFound == "KeyError: Model not found in registry"

nonMemVars == <<pipeVars, _runs, disk, best_dir, nregs, marketVars>>

MemRegister ==
    /\ registry_kind = "memory"
    /\ \E name \in MemNames, p \in MemPayloads :
          /\ _models' = DictSet(_models, name, p.model)
          /\ _metadata' = DictSet(_metadata, name,
                                  IF p.given THEN p.metadata ELSE EmptyMap)
          /\ _metrics' = DictSet(_metrics, name, EmptyMap)
          /\ ret' = Called("register", <<name>>, None, None)
    /\ UNCHANGED <<registry_kind, nonMemVars>>

MemUpdateMetrics ==
    /\ registry_kind = "memory"
    /\ \E name \in MemNames, u \in MetricUpdates :
          IF _assert_exists(name)
          THEN /\ _metrics' = DictSet(_metrics, name, Update(_metrics.val[name], u))
               /\ ret' = Called("update_metrics", <<name>>, None, None)
          ELSE /\ _metrics' = _metrics
               /\ ret' = Called("update_metrics", <<name>>, KeyErrorNotFound, None)
    /\ UNCHANGED <<registry_kind, _models, _metadata, nonMemVars>>

\* a lookup by dict.get: None for a name that is not there
Lookup_Default(op, table, name) ==
    Called(op, <<name>>, None, IF HasKey(table, name) THEN table.val[name] ELSE None)

\* get(name), get_metadata(name), get_metrics(name)
Lookup(op, table, name) ==
    IF _assert_exists(name)
    THEN Called(op, <<name>>, None, table.val[name])
    ELSE Called(op, <<name>>, KeyErrorNotFound, None)

MemGet ==
    /\ registry_kind = "memory"
    /\ \E name \in MemNames : ret' = Lookup("get", _models, name)
    /\ UNCHANGED <<registry_kind, memVars, nonMemVars>>

MemGetMetadata ==
    /\ registry_kind = "memory"
    /\ \E name \in MemNames : ret' = Lookup("get_metadata", _metadata, name)
    /\ UNCHANGED <<registry_kind, memVars, nonMemVars>>

MemGetMetrics ==
    /\ registry_kind = "memory"
    /\ \E name \in MemNames : ret' = Lookup("get_metrics", _metrics, name)
    /\ UNCHANGED <<registry_kind, memVars, nonMemVars>>

MemGetBest ==
    /\ registry_kind = "memory"
    /\ \E metric \in MetricNames, minimize \in BOOLEAN :
          LET r == get_best(metric, minimize)
          IN  ret' = Called("get_best", <<metric, minimize>>, r.exc, r.value)
    /\ UNCHANGED <<registry_kind, memVars, nonMemVars>>

(***************************************************************************)
(* Persisting registry: register() and summary() as called directly, and   *)
(* pmo_forcasting.forecasting.compare.ModelComparator on top of it         *)
(***************************************************************************)
\* (name, run_id) arguments: "a_1"/"1" and "a"/"1_1" format to one run
\* directory, and "a"/"1" and "a_1"/"1" to one champion folder
StoreArgs == {<< <<"a">>, <<"1">> >>,
              << <<"a", "_", "1">>, <<"1">> >>,
              << <<"a">>, <<"1", "_", "1">> >>}

NetModel == [keras |-> TRUE, id |-> "net"]
ObjModel == [keras |-> FALSE, id |-> "obj"]

\* (model, metrics, config) arguments of register(): a Keras model scored 1
\* or NaN, a pickled model scored 2, and one that reports another metric
StorePayloads ==
    {[model |-> NetModel, metrics |-> [k \in {"RMSE"} |-> 1], config |-> "c1"],
     [model |-> NetModel, metrics |-> [k \in {"RMSE"} |-> NaN], config |-> "c1"],
     [model |-> ObjModel, metrics |-> [k \in {"RMSE"} |-> 2], config |-> "c2"],
     [model |-> ObjModel, metrics |-> [k \in {"MAE"} |-> 1], config |-> "c2"]}

RowFields == {"name", "run_id", "framework", "path", "model_file", "config", "metrics"}

\* one row of summary(): the fixed fields, then row.update(r["metrics"])
Row(r) ==
    [f \in RowFields \cup DOMAIN r.metrics |->
        IF f \in DOMAIN r.metrics THEN r.metrics[f]
        ELSE IF f = "model_file" THEN <<r.path, r.model_file>>
        ELSE r[f]]

summary(rs) == [n \in 1..Len(rs.keys) |-> Row(rs.val[rs.keys[n]])]

\* a cell of pd.DataFrame(rows): NaN where the row has no such key
Cell(row, column) == IF column \in DOMAIN row THEN row[column] ELSE NaN

Columns(rows) == UNION {DOMAIN rows[n] : n \in 1..Len(rows)}

\* the row numbers of `left` that sort_values may place first: a row with
\* the extremal value if any row has one, else the first of the NaN rows
SortFirst(rows, metric, ascending, left) ==
    LET c(k) == Cell(rows[k], metric)
        valued == {k \in left : c(k) # NaN}
    IN  IF valued = {}
        THEN {k \in left : \A j \in left : k <= j}
        ELSE {k \in valued : \A j \in valued :
                 IF ascending THEN c(k) <= c(j) ELSE c(k) >= c(j)}

\* df.sort_values(metric, ascending): the orders of the row numbers it can
\* give. NaN cells go last in their original order; the default sort is not
\* stable, so equal values may come in either order.
RECURSIVE SortOrdersOf(_, _, _, _)
SortOrdersOf(rows, metric, ascending, left) ==
    IF left = {} THEN {<<>>}
    ELSE UNION {{<<k>> \o rest :
                    rest \in SortOrdersOf(rows, metric, ascending, left \ {k})} :
                 k \in SortFirst(rows, metric, ascending, left)}

SortOrders(rows, metric, ascending) ==
    SortOrdersOf(rows, metric, ascending, 1..Len(rows))

\* a compare() without the metric check: the table is sorted on a column of
\* NaN cells
compare_SkipsMetricCheck(rs, metric, minimize) ==
    LET rows == summary(rs)
    IN  IF rows = <<>>
        THEN [exc |-> "ValueError: No models available in registry", tables |-> {}]
        ELSE [exc |-> None,
              tables |-> {[n \in 1..Len(rows) |-> rows[p[n]]] :
                             p \in SortOrders(rows, metric, minimize)}]

\* compare(registry): the exception it raises, or the tables it can return
compare(rs, metric, minimize) ==
    LET rows == summary(rs)
    IN  IF rows = <<>>
        THEN [exc |-> "ValueError: No models available in registry", tables |-> {}]
        ELSE IF metric \notin Columns(rows)
        THEN [exc |-> "KeyError: Metric not found", tables |-> {}]
        ELSE [exc |-> None,
              tables |-> {[n \in 1..Len(rows) |-> rows[p[n]]] :
                             p \in SortOrders(rows, metric, minimize)}]

\* run_id in best_name
Contains(sub, str) ==
    \E k \in 1..(Len(str) - Len(sub) + 1) : SubSeq(str, k, k + Len(sub) - 1) = sub

FolderName(name, rid) == IF Contains(rid, name) THEN name ELSE name \o <<"_">> \o rid

\* the steps of register() that raise while models are being compared (the
\* registry's own specification injects every one of RegisterFaults)
CompareFaults == {"none"}

storeFrame == <<pipeVars, registry_kind, memVars, marketVars>>

StoreRegister(faults, limit) ==
    /\ registry_kind = "disk"
    /\ nregs < limit
    /\ nregs' = nregs + 1
    /\ \E a \in StoreArgs, p \in StorePayloads, fault \in faults :
          LET r == Register(_runs, disk, a[1], a[2], p.model, p.metrics, p.config, fault)
          IN  /\ _runs' = r.runs
              /\ disk' = r.disk
              /\ ret' = Called("register", <<a[1], a[2], p>>, r.exc, None)
    /\ UNCHANGED <<best_dir, storeFrame>>

StoreSummary ==
    /\ registry_kind = "disk"
    /\ ret' = Called("summary", <<>>, None, summary(_runs))
    /\ UNCHANGED <<_runs, disk, nregs, best_dir, storeFrame>>

Compare ==
    /\ registry_kind = "disk"
    /\ \E metric \in MetricNames, minimize \in BOOLEAN :
          LET c == compare(_runs, metric, minimize)
          IN  IF c.exc # None
              THEN ret' = Called("compare", <<metric, minimize>>, c.exc, None)
              ELSE \E df \in c.tables :
                     ret' = Called("compare", <<metric, minimize>>, None, df)
    /\ UNCHANGED <<_runs, disk, nregs, best_dir, storeFrame>>

\* a promotion that clears the destination before it checks the source
Promote_CleansFirst(bd, dsk, dest, source_path) ==
    LET cleared == [q \in (DOMAIN bd) \ {dest} |-> bd[q]]
    IN  IF source_path \notin DOMAIN dsk
        THEN [exc |-> "FileNotFoundError", best_dir |-> cleared]
        ELSE [exc |-> None, best_dir |-> PutDir(cleared, dest, dsk[source_path])]

\* select_best, after best_row is chosen: the source check, then rmtree of
\* the destination if it exists, then copytree (PutDir replaces the folder)
Promote(bd, dsk, dest, source_path) ==
    IF source_path \notin DOMAIN dsk
    THEN [exc |-> "FileNotFoundError", best_dir |-> bd]
    ELSE [exc |-> None, best_dir |-> PutDir(bd, dest, dsk[source_path])]

\* select_best(registry): the function ends after copytree, so it returns None
SelectBest ==
    /\ registry_kind = "disk"
    /\ \E metric \in MetricNames, minimize \in BOOLEAN :
          LET c == compare(_runs, metric, minimize)
          IN  IF c.exc # None
              THEN /\ ret' = Called("select_best", <<metric, minimize>>, c.exc, None)
                   /\ best_dir' = best_dir
              ELSE \E df \in c.tables :
                     LET best_row == df[1]
                         r == Promote(best_dir, disk,
                                      FolderName(best_row["name"], best_row["run_id"]),
                                      best_row["path"])
                     IN  /\ ret' = Called("select_best", <<metric, minimize>>, r.exc, None)
                         /\ best_dir' = r.best_dir
    /\ UNCHANGED <<_runs, disk, nregs, storeFrame>>

\* a run directory is removed from outside the program
ExternalCleanup ==
    /\ registry_kind = "disk"
    /\ \E gone \in DOMAIN disk :
          disk' = [q \in (DOMAIN disk) \ {gone} |-> disk[q]]
    /\ ret' = NoCall
    /\ UNCHANGED <<_runs, nregs, best_dir, storeFrame>>

RegistryInit ==
    /\ Init
    /\ models = <<>>

\* the two registry classes, each called directly
RegistryNext ==
    \/ MemRegister
    \/ MemUpdateMetrics
    \/ MemGet
    \/ MemGetMetadata
    \/ MemGetMetrics
    \/ MemGetBest
    \/ StoreRegister(RegisterFaults, MaxRegs)
    \/ StoreSummary
    \/ ExternalCleanup

SpecRegistry == RegistryInit /\ [][RegistryNext]_vars

\* best selection: get_best() of the in-memory class, ModelComparator on the
\* persisting class
CompareNext ==
    \/ MemRegister
    \/ MemUpdateMetrics
    \/ MemGetBest
    \/ StoreRegister(CompareFaults, MaxCompared)
    \/ Compare
    \/ SelectBest
    \/ ExternalCleanup

SpecCompare == RegistryInit /\ [][CompareNext]_vars

(***************************************************************************)
(* Data preparation: pmo_forcasting.forecasting.data_preparation,          *)
(* pmo_forecasting.forecasting.data_preparation and                        *)
(* pmo_forcasting.forecasting.lstm.dataset. Each behaviour is one call.    *)
(***************************************************************************)
MaxDate == 4
MaxWindow == 2

\* target values of the input table
PriceValues == {1, 3}

Dates == 1..MaxDate

\* the input table: one row per date
Frames == [Dates -> PriceValues]

\* forecasting.data.{train_start, train_end, test_start, test_end}
DataConfigs == [train_start : Dates, train_end : Dates,
                test_start : Dates, test_end : Dates]

\* forecasting.lstm.window_size
Windows == 0..MaxWindow

\* df.sort_values(date_col).set_index(date_col)
SortedRows(df) == [d \in Dates |-> [date |-> d, value |-> df[d]]]

\* df.loc[a:b] on the sorted index: both ends inclusive
Loc(rows, a, b) == SelectSeq(rows, LAMBDA r : a <= r.date /\ r.date <= b)

\* frame[[target]] / frame[target]
Column(rows) == [k \in 1..Len(rows) |-> rows[k].value]

SeqMin(xs) == CHOOSE m \in {xs[k] : k \in 1..Len(xs)} : \A k \in 1..Len(xs) : m <= xs[k]

SeqMax(xs) == CHOOSE m \in {xs[k] : k \in 1..Len(xs)} : \A k \in 1..Len(xs) : m >= xs[k]

\* MinMaxScaler(feature_range=(0, 1)).fit: data_min_ and the data range,
\* a zero range being replaced by 1
Fit(xs) ==
    [min |-> SeqMin(xs),
     range |-> IF SeqMax(xs) = SeqMin(xs) THEN 1 ELSE SeqMax(xs) - SeqMin(xs)]

\* scaler.transform: (x - min) / range, kept as numerator and denominator
Transform(scaler, xs) == [k \in 1..Len(xs) |-> <<xs[k] - scaler.min, scaler.range>>]

Failed(msg) == [exc |-> msg, value |-> None]

Returns(v) == [exc |-> None, value |-> v]

EmptySamples == "ValueError: Found array with 0 sample(s)"

\* what prepare_data_from_df and prepare_forecasting_data share: the split,
\* the scaler fitted on the train slice, both slices transformed
SplitAndScale(df, cfg) ==
    LET rows == SortedRows(df)
        train_df == Loc(rows, cfg.train_start, cfg.train_end)
        test_df == Loc(rows, cfg.test_start, cfg.test_end)
    IN  IF train_df = <<>> \/ test_df = <<>>
        THEN Failed(EmptySamples)
        ELSE LET scaler == Fit(Column(train_df))
             IN  Returns([train_df |-> train_df,
                          test_df |-> test_df,
                          train_scaled |-> Transform(scaler, Column(train_df)),
                          test_scaled |-> Transform(scaler, Column(test_df)),
                          scaler |-> scaler])

prepare_data_from_df(df, cfg) == SplitAndScale(df, cfg)

\* a loop over range(window, len(data) - 1): the last pair is left out
RECURSIVE SequenceLoop_StopsEarly(_, _, _, _)
SequenceLoop_StopsEarly(data, window, i, acc) ==
    IF i >= Len(data) - 1 THEN acc
    ELSE SequenceLoop_StopsEarly(data, window, i + 1,
                      [X |-> Append(acc.X, SubSeq(data, i - window + 1, i)),
                       y |-> Append(acc.y, data[i + 1])])

\* the loop of create_sequences / make_lstm_sequences: i runs over
\* range(window, len(data)), 0-based; data[i - window:i] and data[i]
RECURSIVE SequenceLoop(_, _, _, _)
SequenceLoop(data, window, i, acc) ==
    IF i >= Len(data) THEN acc
    ELSE SequenceLoop(data, window, i + 1,
                      [X |-> Append(acc.X, SubSeq(data, i - window + 1, i)),
                       y |-> Append(acc.y, data[i + 1])])

NoPairs == [X |-> <<>>, y |-> <<>>]

\* lstm.dataset.create_sequences: np.array(X), np.array(y)
dataset_create_sequences(series, window_size) ==
    Returns(SequenceLoop(series, window_size, window_size, NoPairs))

\* data_preparation.create_sequences: as above, then reshape(-1, window, 1),
\* which numpy refuses when window is 0
create_sequences(data, window_size) ==
    IF window_size = 0
    THEN Failed("ValueError: cannot reshape array")
    ELSE Returns(SequenceLoop(data, window_size, window_size, NoPairs))

make_lstm_sequences(data, window) ==
    IF window = 0
    THEN Failed("ValueError: cannot reshape array")
    ELSE Returns(SequenceLoop(data, window, window, NoPairs))

\* pmo_forcasting get_model_ready_data: windows over train_scaled and over
\* test_scaled
get_model_ready_data(df, cfg, win_size) ==
    LET prep == prepare_data_from_df(df, cfg)
    IN  IF prep.exc # None THEN prep
        ELSE LET train == create_sequences(prep.value.train_scaled, win_size)
                 test == create_sequences(prep.value.test_scaled, win_size)
             IN  IF train.exc # None THEN train
                 ELSE IF test.exc # None THEN test
                 ELSE Returns([arima_train |-> prep.value.train_df,
                               arima_test |-> prep.value.test_df,
                               lstm_train |-> train.value,
                               lstm_test |-> test.value,
                               scaler |-> prep.value.scaler])

\* data[-window:]: the last window items, all of them when window is 0 or
\* more than there are
LastItems(data, window) ==
    IF window = 0 \/ window >= Len(data) THEN data
    ELSE SubSeq(data, Len(data) - window + 1, Len(data))

\* pmo_forecasting prepare_forecasting_data: test windows over
\* train_scaled[-window:] stacked on test_scaled
prepare_forecasting_data(df, cfg, window) ==
    LET prep == SplitAndScale(df, cfg)
    IN  IF prep.exc # None THEN prep
        ELSE LET full_test_input == LastItems(prep.value.train_scaled, window)
                                       \o prep.value.test_scaled
                 train == make_lstm_sequences(prep.value.train_scaled, window)
                 test == make_lstm_sequences(full_test_input, window)
             IN  IF train.exc # None THEN train
                 ELSE IF test.exc # None THEN test
                 ELSE Returns([arima_train |-> prep.value.train_df,
                               arima_test |-> prep.value.test_df,
                               lstm_train |-> train.value,
                               lstm_test |-> test.value,
                               scaler |-> prep.value.scaler])

\* the series create_sequences is called with directly
Series == UNION {[1..n -> PriceValues] : n \in 0..MaxDate}

SequenceFunctions == {"create_sequences", "make_lstm_sequences", "dataset.create_sequences"}

Sequences3(fn, data, window) ==
    CASE fn = "create_sequences" -> create_sequences(data, window)
      [] fn = "make_lstm_sequences" -> make_lstm_sequences(data, window)
      [] OTHER -> dataset_create_sequences(data, window)

PrepareFunctions == {"get_model_ready_data", "prepare_forecasting_data"}

Prepare3(fn, df, cfg, window) ==
    IF fn = "get_model_ready_data" THEN get_model_ready_data(df, cfg, window)
    ELSE prepare_forecasting_data(df, cfg, window)

\* everything but ret
dataFrame == <<pipeVars, registry_kind, memVars, marketVars, _runs, disk, best_dir, nregs>>

PrepareDataFromDf ==
    /\ ret = NoCall
    /\ \E df \in Frames, cfg \in DataConfigs :
          LET r == prepare_data_from_df(df, cfg)
          IN  ret' = Called("prepare_data_from_df", <<df, cfg>>, r.exc, r.value)
    /\ UNCHANGED dataFrame

PrepareBundle ==
    /\ ret = NoCall
    /\ \E fn \in PrepareFunctions, df \in Frames, cfg \in DataConfigs, w \in Windows :
          LET r == Prepare3(fn, df, cfg, w)
          IN  ret' = Called(fn, <<df, cfg, w>>, r.exc, r.value)
    /\ UNCHANGED dataFrame

CreateSequences ==
    /\ ret = NoCall
    /\ \E fn \in SequenceFunctions, data \in Series, w \in Windows :
          LET r == Sequences3(fn, data, w)
          IN  ret' = Called(fn, <<data, w>>, r.exc, r.value)
    /\ UNCHANGED dataFrame

\* two preparations, by the same function with the same configuration, of
\* tables that differ in one row whose date lies in the configured test range
PrepareTwice ==
    /\ ret = NoCall
    /\ \E fn \in {"prepare_data_from_df"} \cup PrepareFunctions,
          df \in Frames, cfg \in DataConfigs :
          \E w \in IF fn = "prepare_data_from_df" THEN {0} ELSE Windows,
             d \in {x \in Dates : cfg.test_start <= x /\ x <= cfg.test_end} :
             \E v \in PriceValues \ {df[d]} :
             LET other == [df EXCEPT ![d] = v]
                 r1 == IF fn = "prepare_data_from_df" THEN prepare_data_from_df(df, cfg)
                       ELSE Prepare3(fn, df, cfg, w)
                 r2 == IF fn = "prepare_data_from_df" THEN prepare_data_from_df(other, cfg)
                       ELSE Prepare3(fn, other, cfg, w)
             IN  ret' = Called("twice", <<fn, cfg, w, df, other>>, None, <<r1, r2>>)
    /\ UNCHANGED dataFrame

(***************************************************************************)
(* pmo_forcasting.forecasting.lstm.recursive.recursive_lstm_forecast        *)
(***************************************************************************)
MaxSteps == 3

\* what model.predict returns: any values, here told apart from the prices
PredValues == {5, 7}

\* the values the model returns to its first, second, ... call
Predictions == [1..MaxSteps -> PredValues]

\* seed windows of shape (1, window_size, 1)
SeedWindows == UNION {[1..w -> PriceValues] : w \in 1..MaxWindow}

\* a roll that leaves the window where it is
Roll_NoShift(window) == window

\* np.roll(window, -1, axis=1): every item one place to the left, the first
\* to the end
Roll(window) == Tail(window) \o <<Head(window)>>

\* arrays live in a heap, a sequence of arrays; an array's identity is
\* its position there
NewArray(heap, content) == Append(heap, content)

\* a loop that shifts the array it was given in place
RECURSIVE ForecastLoop_InPlace(_, _, _, _)
ForecastLoop_InPlace(outs, n_steps, k, st) ==
    IF k >= n_steps THEN st
    ELSE LET next_val == outs[k + 1]
             rolled == Roll(st.heap[st.window])
         IN  ForecastLoop_InPlace(outs, n_steps, k + 1,
                 [preds |-> Append(st.preds, next_val),
                  calls |-> Append(st.calls, st.heap[st.window]),
                  heap |-> [st.heap EXCEPT ![st.window] =
                               [rolled EXCEPT ![Len(rolled)] = next_val]],
                  window |-> st.window])

\* a forecast that works on the caller's array itself
recursive_lstm_forecast_InPlace(outs, seed_window, n_steps) ==
    LET st == ForecastLoop_InPlace(outs, n_steps, 0,
                  [preds |-> <<>>, calls |-> <<>>,
                   heap |-> <<seed_window>>, window |-> 1])
    IN  [preds |-> st.preds, calls |-> st.calls, seed_window |-> st.heap[1]]

\* one pass of the loop body, until n_steps passes are made; calls are the
\* windows handed to model.predict. np.roll makes a new array, whose last
\* slot is then assigned
RECURSIVE ForecastLoop(_, _, _, _)
ForecastLoop(outs, n_steps, k, st) ==
    IF k >= n_steps THEN st
    ELSE LET next_val == outs[k + 1]
             rolled == Roll(st.heap[st.window])
             heap == NewArray(st.heap, rolled)
         IN  ForecastLoop(outs, n_steps, k + 1,
                 [preds |-> Append(st.preds, next_val),
                  calls |-> Append(st.calls, st.heap[st.window]),
                  heap |-> [heap EXCEPT ![Len(heap)] =
                               [rolled EXCEPT ![Len(rolled)] = next_val]],
                  window |-> Len(heap)])

\* recursive_lstm_forecast: the caller's array is the first of the heap,
\* window = seed_window.copy() the second; returned are the predictions,
\* beside them the windows passed to the model and the caller's array as
\* the call leaves it
recursive_lstm_forecast(outs, seed_window, n_steps) ==
    LET copied == NewArray(<<seed_window>>, seed_window)
        st == ForecastLoop(outs, n_steps, 0,
                  [preds |-> <<>>, calls |-> <<>>,
                   heap |-> copied, window |-> Len(copied)])
    IN  [preds |-> st.preds, calls |-> st.calls, seed_window |-> st.heap[1]]

RecursiveForecast ==
    /\ ret = NoCall
    /\ \E outs \in Predictions, seed \in SeedWindows, n \in 0..MaxSteps :
          ret' = Called("recursive_lstm_forecast", <<outs, seed, n>>, None,
                        recursive_lstm_forecast(outs, seed, n))
    /\ UNCHANGED dataFrame

DataInit ==
    /\ Init
    /\ models = <<>>
    /\ registry_kind = "disk"

DataNext ==
    \/ PrepareDataFromDf
    \/ PrepareBundle
    \/ CreateSequences
    \/ PrepareTwice
    \/ RecursiveForecast

SpecData == DataInit /\ [][DataNext]_vars

(***************************************************************************)
(* Numeric helpers of the forecasting packages: pmo_forcasting evaluate     *)
(* and pmo_forecasting metrics. Each behaviour is one call.                 *)
(***************************************************************************)
MaxLen == 3

\* observed and predicted values
MapeValues == {0, 1, 2}

Samples == UNION {[1..n -> MapeValues] : n \in 0..MaxLen}

\* a float: a ratio of integers, inf or nan
Fin(n, d) == <<"num", n, d>>
NanF == <<"nan", 0, 1>>
InfF == <<"inf", 0, 1>>

Abs(x) == IF x < 0 THEN -x ELSE x

\* np.abs(a / b) on floats: x / 0 is inf and 0 / 0 is nan, with a warning
AbsRatio(a, b) ==
    IF b = 0 THEN (IF a = 0 THEN NanF ELSE InfF) ELSE Fin(Abs(a), Abs(b))

FAdd(x, y) ==
    IF x[1] = "nan" \/ y[1] = "nan" THEN NanF
    ELSE IF x[1] = "inf" \/ y[1] = "inf" THEN InfF
    ELSE Fin(x[2] * y[3] + y[2] * x[3], x[3] * y[3])

RECURSIVE FSum(_)
FSum(terms) ==
    IF terms = <<>> THEN Fin(0, 1) ELSE FAdd(Head(terms), FSum(Tail(terms)))

\* np.mean: nan for an empty array
FMean(terms) ==
    IF terms = <<>> THEN NanF
    ELSE LET total == FSum(terms)
         IN  IF total[1] = "num" THEN Fin(total[2], total[3] * Len(terms)) ELSE total

FTimes(x, k) == IF x[1] = "num" THEN Fin(x[2] * k, x[3]) ELSE x

\* a[mask]: the items of a at the positions where keep holds, in order
RECURSIVE Masked(_, _)
Masked(a, keep) ==
    IF a = <<>> THEN <<>>
    ELSE (IF Head(keep) THEN <<Head(a)>> ELSE <<>>) \o Masked(Tail(a), Tail(keep))

Ratios(y_true, y_pred) ==
    [i \in 1..Len(y_true) |-> AbsRatio(y_true[i] - y_pred[i], y_true[i])]

\* pmo_forcasting evaluate.mape
mape(y_true, y_pred) ==
    LET mask == [i \in 1..Len(y_true) |-> y_true[i] # 0]
    IN  IF \A i \in 1..Len(mask) : ~mask[i] THEN NanF
        ELSE FTimes(FMean(Ratios(Masked(y_true, mask), Masked(y_pred, mask))), 100)

\* pmo_forecasting metrics.mape
metrics_mape(y_true, y_pred) == FTimes(FMean(Ratios(y_true, y_pred)), 100)

MapeFunctions == {"mape", "metrics.mape"}

Mape ==
    /\ ret = NoCall
    /\ \E fn \in MapeFunctions, y_true \in Samples :
          \E y_pred \in [1..Len(y_true) -> MapeValues] :
             ret' = Called(fn, <<y_true, y_pred>>, None,
                           IF fn = "mape" THEN mape(y_true, y_pred)
                           ELSE metrics_mape(y_true, y_pred))
    /\ UNCHANGED dataFrame

(***************************************************************************)
(* pmo_forcasting.forecasting.lstm.recursive.compute_confidence_intervals   *)
(***************************************************************************)
FNeg(x) == IF x[1] = "num" THEN Fin(-x[2], x[3]) ELSE x

FMul(x, y) ==
    IF x[1] = "nan" \/ y[1] = "nan" THEN NanF
    ELSE IF x[1] = "inf" \/ y[1] = "inf" THEN InfF
    ELSE Fin(x[2] * y[2], x[3] * y[3])

\* comparisons of finite floats with positive denominators
FEq(x, y) == x[1] = "num" /\ y[1] = "num" /\ x[2] * y[3] = y[2] * x[3]
FLe(x, y) == x[1] = "num" /\ y[1] = "num" /\ x[2] * y[3] <= y[2] * x[3]

RECURSIVE SumOf(_)
SumOf(a) == IF a = <<>> THEN 0 ELSE Head(a) + SumOf(Tail(a))

Squares(a) == [i \in 1..Len(a) |-> a[i] * a[i]]

\* n * sum(r^2) - sum(r)^2: the variance of r times n^2
ScaledVariance(r) == Len(r) * SumOf(Squares(r)) - SumOf(r) * SumOf(r)

IsSquare(x) == \E q \in 0..x : q * q = x

\* np.std(residuals): the root of the mean squared deviation from the mean,
\* for residuals where that root is a ratio of integers
Std(residuals) ==
    Fin(CHOOSE q \in 0..ScaledVariance(residuals) : q * q = ScaledVariance(residuals),
        Len(residuals))

ResidualValues == {-1, 0, 1}

Residuals ==
    {r \in UNION {[1..n -> ResidualValues] : n \in 1..MaxLen} : IsSquare(ScaledVariance(r))}

\* point forecasts
Forecasts == UNION {[1..n -> {1, 2}] : n \in 0..MaxLen}

\* z: float = 1.96, as 49 / 25
DefaultZ == Fin(49, 25)

ZScores == {Fin(0, 1), Fin(1, 1), Fin(2, 1)}

\* a function that names its two results the other way round
compute_confidence_intervals_Swapped(forecast, residuals, z) ==
    LET residual_std == Std(residuals)
        upper == [i \in 1..Len(forecast) |->
                     FAdd(Fin(forecast[i], 1), FMul(z, residual_std))]
        lower == [i \in 1..Len(forecast) |->
                     FAdd(Fin(forecast[i], 1), FNeg(FMul(z, residual_std)))]
    IN  <<upper, lower>>

compute_confidence_intervals(forecast, residuals, z) ==
    LET residual_std == Std(residuals)
        upper == [i \in 1..Len(forecast) |->
                     FAdd(Fin(forecast[i], 1), FMul(z, residual_std))]
        lower == [i \in 1..Len(forecast) |->
                     FAdd(Fin(forecast[i], 1), FNeg(FMul(z, residual_std)))]
    IN  <<lower, upper>>

ConfidenceIntervals ==
    /\ ret = NoCall
    /\ \E forecast \in Forecasts, residuals \in Residuals,
          given \in BOOLEAN, zs \in ZScores :
          LET z == IF given THEN zs ELSE DefaultZ
          IN  ret' = Called("compute_confidence_intervals",
                            <<forecast, residuals, z>>, None,
                            compute_confidence_intervals(forecast, residuals, z))
    /\ UNCHANGED dataFrame

(***************************************************************************)
(* pmo_forcasting.forecasting.lstm.recursive.build_forecast_index           *)
(***************************************************************************)
\* dates are day numbers; day 0 is a Monday
Weekday(d) == d % 7

\* the dates a test set can end on: two weeks, every weekday among them
LastDates == 0..13

\* the next calendar day
Following_CalendarDay(d) == d + 1

\* the business day after a business day: Friday is followed by Monday
Following(d) == IF Weekday(d) = 4 THEN d + 3 ELSE d + 1

\* the start of a business-day range: a Saturday or Sunday rolls forward
RollForward(d) ==
    IF Weekday(d) = 5 THEN d + 2 ELSE IF Weekday(d) = 6 THEN d + 1 ELSE d

\* pd.bdate_range(start=, periods=): periods business days from start on
RECURSIVE BusinessDaysFrom(_, _)
BusinessDaysFrom(d, periods) ==
    IF periods = 0 THEN <<>>
    ELSE <<d>> \o BusinessDaysFrom(Following(d), periods - 1)

bdate_range(start, periods) == BusinessDaysFrom(RollForward(start), periods)

build_forecast_index(last_date, n_steps) == bdate_range(last_date + 1, n_steps)

BuildForecastIndex ==
    /\ ret = NoCall
    /\ \E last_date \in LastDates, n_steps \in 0..MaxSteps :
          ret' = Called("build_forecast_index", <<last_date, n_steps>>, None,
                        build_forecast_index(last_date, n_steps))
    /\ UNCHANGED dataFrame

(***************************************************************************)
(* pmo_forcasting.forecasting.lstm.model.train_lstm: the validation split   *)
(***************************************************************************)
MaxTrain == 11

\* val_split = 0.1, in percent
ValSplitPercent == 10

\* the training windows, told apart by the time of their target
TrainWindows == {[i \in 1..n |-> i] : n \in 0..MaxTrain}

\* a split that holds back the head of the windows
train_lstm_ValidatesOnHead(X_train, y_train) ==
    LET split_at == (Len(X_train) * (100 - ValSplitPercent)) \div 100
        held == Len(X_train) - split_at
    IN  [X_t |-> SubSeq(X_train, held + 1, Len(X_train)),
         y_t |-> SubSeq(y_train, held + 1, Len(y_train)),
         X_v |-> SubSeq(X_train, 1, held),
         y_v |-> SubSeq(y_train, 1, held)]

\* train_lstm: split_at = int(len(X_train) * (1 - val_split)); what is
\* passed to model.fit as training data and as validation_data
train_lstm(X_train, y_train) ==
    LET split_at == (Len(X_train) * (100 - ValSplitPercent)) \div 100
    IN  [X_t |-> SubSeq(X_train, 1, split_at),
         y_t |-> SubSeq(y_train, 1, split_at),
         X_v |-> SubSeq(X_train, split_at + 1, Len(X_train)),
         y_v |-> SubSeq(y_train, split_at + 1, Len(y_train))]

TrainLstm ==
    /\ ret = NoCall
    /\ \E X_train \in TrainWindows :
          ret' = Called("train_lstm", <<X_train, X_train>>, None,
                        train_lstm(X_train, X_train))
    /\ UNCHANGED dataFrame

FunctionsNext ==
    \/ Mape
    \/ ConfidenceIntervals
    \/ BuildForecastIndex
    \/ TrainLstm

SpecFunctions == DataInit /\ [][FunctionsNext]_vars

(***************************************************************************)
(* pmo_forcasting.data: MarketDataDownloader.run and MarketDataService.run  *)
(* on one output directory, called one after another.                       *)
(***************************************************************************)
MaxCalls == 2

Tickers == {"TSLA", "SPY"}

\* config["assets"]
AssetConfigs == {<<"TSLA">>, <<"TSLA", "SPY">>, <<"SPY", "TSLA">>}

MarketKinds == {"downloader", "service"}

Range(f) == {f[i] : i \in DOMAIN f}

\* the dates of the downloaded table: none or two trading days
RowDates == {<<>>, <<1, 2>>}

\* what the downloaded table holds for a ticker: its columns with a close in
\* every row, nothing, its columns without the close, or a close of NaN in
\* every row
ColumnStates == {"ok", "absent", "no_close", "nan"}

\* the table yf.download returns for the tickers: columns by ticker
\* (MultiIndex) or one set of columns without tickers; missing are the
\* tickers the provider had no data for
RawFrames(tickers) ==
    {[shape |-> "multi", index |-> ix, col |-> c,
      missing |-> {t \in Range(tickers) : c[t] = "absent"}] :
         ix \in RowDates, c \in [Range(tickers) -> ColumnStates]}
    \cup
    {[shape |-> "single", index |-> ix, col |-> [t \in Range(tickers) |-> st],
      missing |-> m] :
         ix \in RowDates, st \in ColumnStates \ {"absent"},
         m \in SUBSET Range(tickers)}

\* pd.DataFrame()
EmptyFrame == [columns |-> FALSE, rows |-> <<>>]

\* the rows of one ticker, one per date of the table
TickerRows(raw, ticker) ==
    [i \in 1..Len(raw.index) |-> [date |-> raw.index[i], ticker |-> ticker]]

\* _extract_and_format: the ticker's columns (of a MultiIndex table) or the
\* whole table, rows without a close dropped; pd.DataFrame() on any error
_extract_and_format(raw, ticker) ==
    CASE raw.col[ticker] = "absent" -> EmptyFrame
      [] raw.col[ticker] = "no_close" -> EmptyFrame
      [] raw.col[ticker] = "nan" -> [columns |-> TRUE, rows |-> <<>>]
      [] OTHER -> [columns |-> TRUE, rows |-> TickerRows(raw, ticker)]

\* DataTransformer.clean
clean(raw, ticker) ==
    CASE raw.col[ticker] = "absent" -> EmptyFrame
      [] raw.col[ticker] = "no_close" -> EmptyFrame
      [] raw.col[ticker] = "nan" -> [columns |-> TRUE, rows |-> <<>>]
      [] OTHER -> [columns |-> TRUE, rows |-> TickerRows(raw, ticker)]

\* the order of sort_values(["date", "ticker"])
RowBefore(a, b) ==
    \/ a.date < b.date
    \/ a.date = b.date /\ a.ticker = "SPY" /\ b.ticker = "TSLA"

RECURSIVE SortRows(_)
SortRows(rows) ==
    IF rows = <<>> THEN <<>>
    ELSE LET k == CHOOSE i \in 1..Len(rows) :
                     \A j \in 1..Len(rows) : ~RowBefore(rows[j], rows[i])
         IN  <<rows[k]>> \o SortRows(SubSeq(rows, 1, k - 1) \o SubSeq(rows, k + 1, Len(rows)))

RECURSIVE Concat(_)
Concat(frames) ==
    IF frames = <<>> THEN EmptyFrame
    ELSE LET rest == Concat(Tail(frames))
         IN  [columns |-> Head(frames).columns \/ rest.columns,
              rows |-> Head(frames).rows \o rest.rows]

\* MarketDataDownloader._combine
_combine(frames) ==
    IF frames = <<>> THEN EmptyFrame
    ELSE [columns |-> Concat(frames).columns, rows |-> SortRows(Concat(frames).rows)]

\* the outcome of a run(): the exception or the table, the directory after
\* it, and whether the provider was asked
Outcome(exc, value, dir, downloaded) ==
    [exc |-> exc, value |-> value, dir |-> dir, downloaded |-> downloaded]

\* pd.read_csv of a file written from a table without columns
EmptyDataError == "EmptyDataError: No columns to parse from file"

Cached(dir, tickers) == \A t \in Range(tickers) : t \in DOMAIN dir

\* the tickers in the order of a dict built from them
RECURSIVE Distinct(_)
Distinct(tickers) ==
    IF tickers = <<>> THEN <<>>
    ELSE LET front == Distinct(SubSeq(tickers, 1, Len(tickers) - 1))
             last == tickers[Len(tickers)]
         IN  IF last \in Range(front) THEN front ELSE Append(front, last)

LoadAll(dir, tickers) == [i \in 1..Len(tickers) |-> dir[tickers[i]]]

\* the loop of MarketDataDownloader.run over config["assets"]
RECURSIVE DownloaderLoop(_, _, _, _, _)
DownloaderLoop(raw, tickers, i, dir, frames) ==
    IF i > Len(tickers) THEN [dir |-> dir, frames |-> frames]
    ELSE LET df == _extract_and_format(raw, tickers[i])
         IN  IF df.rows # <<>>
             THEN DownloaderLoop(raw, tickers, i + 1,
                                 WriteFile(dir, tickers[i], df), Append(frames, df))
             ELSE DownloaderLoop(raw, tickers, i + 1, dir, frames)

\* the cache is used when every CSV exists and force is false
UseCache(dir, tickers, force) == Cached(dir, tickers) /\ ~force

\* MarketDataDownloader.run(force)
DownloaderRun(dir, tickers, force, raw) ==
    IF UseCache(dir, tickers, force)
    THEN IF \E t \in Range(tickers) : ~dir[t].columns
         THEN Outcome(EmptyDataError, None, dir, FALSE)
         ELSE Outcome(None, _combine(LoadAll(dir, Distinct(tickers))), dir, FALSE)
    ELSE IF raw.index = <<>>
         THEN Outcome("Yahoo Finance returned no data.", None, dir, TRUE)
         ELSE LET done == DownloaderLoop(raw, tickers, 1, dir, <<>>)
              IN  Outcome(None, _combine(done.frames), done.dir, TRUE)

\* the loop of MarketDataService.run: every cleaned table is saved
RECURSIVE ServiceLoop(_, _, _, _, _)
ServiceLoop(raw, tickers, i, dir, frames) ==
    IF i > Len(tickers) THEN [dir |-> dir, frames |-> frames]
    ELSE LET clean_df == clean(raw, tickers[i])
         IN  ServiceLoop(raw, tickers, i + 1,
                         WriteFile(dir, tickers[i], clean_df), Append(frames, clean_df))

\* MarketDataService.run(config, force)
ServiceRun(dir, tickers, force, raw) ==
    IF UseCache(dir, tickers, force)
    THEN IF \E t \in Range(tickers) : ~dir[t].columns
         THEN Outcome(EmptyDataError, None, dir, FALSE)
         ELSE Outcome(None, Concat(LoadAll(dir, tickers)), dir, FALSE)
    ELSE LET done == ServiceLoop(raw, tickers, 1, dir, <<>>)
             all == Concat(done.frames)
         IN  IF ~all.columns
             THEN Outcome("KeyError: 'date'", None, done.dir, TRUE)
             ELSE Outcome(None, [columns |-> TRUE, rows |-> SortRows(all.rows)],
                          done.dir, TRUE)

marketFrame == <<pipeVars, registry_kind, memVars, _runs, disk, best_dir, nregs>>

\* run(force) on the market data object
MarketRun ==
    /\ ncalls < MaxCalls
    /\ ncalls' = ncalls + 1
    /\ \E force \in BOOLEAN, raw \in RawFrames(assets) :
          LET r == IF market_kind = "downloader"
                   THEN DownloaderRun(output_dir, assets, force, raw)
                   ELSE ServiceRun(output_dir, assets, force, raw)
          IN  /\ output_dir' = r.dir
              /\ ret' = Called("market.run", <<force, raw, output_dir>>, r.exc,
                               [table |-> r.value, downloaded |-> r.downloaded])
    /\ UNCHANGED <<assets, market_kind, marketFrame>>

MarketInit ==
    /\ BaseInit
    /\ models = <<>>
    /\ registry_kind = "disk"
    /\ assets \in AssetConfigs
    /\ market_kind \in MarketKinds
    /\ output_dir = EmptyDir
    /\ ncalls = 0

MarketNext ==
    \/ MarketRun

SpecMarket == MarketInit /\ [][MarketNext]_vars

(***************************************************************************)
(* Claims about ForecastingPipeline.run                                    *)
(***************************************************************************)
Known == {"arima", "lstm"}

Requested == {models[k] : k \in 1..Len(models)}

Returned == CallOp(ret) = "run"

IsMetrics(payload) == DOMAIN payload = {"MAE", "RMSE", "MAPE"}

\* the key register() files a family's model under in the run rid
FamilyKey(fam, rid) == RunKey(<<fam, "_">> \o rid, rid)

C2_Original ==
    Returned => \A n \in Requested : HasKey(CallValue(ret), n)

\* C2 amended: the returned mapping has an entry for exactly the requested
\* names that are "arima" or "lstm", each a metrics mapping or an error payload.
C2_KnownModelsHaveResult ==
    Returned =>
        /\ DOMAIN CallValue(ret).val = Requested \cap Known
        /\ \A n \in DOMAIN CallValue(ret).val :
              IsMetrics(CallValue(ret).val[n]) \/ IsError(CallValue(ret).val[n])

C2_Witness ==
    /\ Returned
    /\ Requested = {"arima", "bogus"}
    /\ IsMetrics(CallValue(ret).val["arima"])

\* C3: the iteration of a name other than "arima" and "lstm" raises nothing,
\* leaves the results, the registry and the disk as they were and goes on to
\* the next position; the returned mapping has no key for such a name.
C3_UnknownSkipped ==
    /\ [][(InLoop /\ models[idx] \notin Known) =>
            /\ caught' = None
            /\ pc' = "loop" /\ idx' = idx + 1
            /\ UNCHANGED <<results, _runs, disk, best_dir, memVars>>]_vars
    /\ [](Returned => DOMAIN CallValue(ret).val \subseteq Known)

C3_Witness ==
    /\ Returned
    /\ Len(models) = 2 /\ models[1] = "bogus" /\ models[2] = "arima"
    /\ IsMetrics(CallValue(ret).val["arima"])
    /\ HasKey(_runs, FamilyKey("arima", CallArgs(ret)))

\* C4: after run() returns, a requested family has a registry entry
\* under this run's run_id iff its result is a metrics mapping, and then with
\* exactly the returned metrics.
C4_Original ==
    Returned =>
        \A fam \in Requested \cap Known :
            LET key == FamilyKey(fam, CallArgs(ret))
            IN  /\ HasKey(_runs, key) <=> IsMetrics(CallValue(ret).val[fam])
                /\ IsMetrics(CallValue(ret).val[fam]) =>
                       _runs.val[key].metrics = CallValue(ret).val[fam]

(***************************************************************************)
(* Claims about the registries and ModelComparator                         *)
(***************************************************************************)
\* the rows of summary(rs) that belong to (name, rid)
RowsOf(rows, name, rid) ==
    {n \in 1..Len(rows) : rows[n]["name"] = name /\ rows[n]["run_id"] = rid}

\* the names whose metrics carry the metric (in-memory registry)
Carriers(metric) == {n \in DOMAIN _metrics.val : metric \in DOMAIN _metrics.val[n]}

\* the rows of summary(rs) whose entry carries the metric
CarrierRows(rows, metric) == {n \in 1..Len(rows) : metric \in DOMAIN rows[n]}

\* v is extremal among vals: computable and no computable value is better,
\* unless no value of vals is computable at all
Extremal(v, vals, minimize) ==
    LET computable == vals \ {NaN}
    IN  computable # {} =>
            /\ v # NaN
            /\ \A w \in computable : IF minimize THEN v <= w ELSE v >= w

\* C5: after a promotion by select_best the champion directory holds exactly
\* one folder, the artifact directory of the model promoted last.
C5_Original ==
    (CallOp(ret) = "select_best" /\ CallExc(ret) = None) => Cardinality(DOMAIN best_dir) = 1

\* C6: a register() call that succeeds for a key that is already registered
\* leaves summary() with exactly one row for that name and run_id, carrying
\* the metrics and the config of this call, at the position the key already
\* had; every other row is the same as before.
C6_ReRegisterOverwrites ==
    [][(CallOp(ret') = "register" /\ CallExc(ret') = None /\ registry_kind = "disk"
        /\ HasKey(_runs, RunKey(CallArgs(ret')[1], CallArgs(ret')[2]))) =>
          LET name == CallArgs(ret')[1]
              rid == CallArgs(ret')[2]
              p == CallArgs(ret')[3]
              old == summary(_runs)
              new == summary(_runs')
          IN  /\ Len(new) = Len(old)
              /\ Cardinality(RowsOf(new, name, rid)) = 1
              /\ RowsOf(new, name, rid) = RowsOf(old, name, rid)
              /\ \A n \in 1..Len(new) :
                    IF n \in RowsOf(new, name, rid)
                    THEN /\ new[n]["metrics"] = p.metrics
                         /\ new[n]["config"] = p.config
                         /\ DOMAIN new[n] = RowFields \cup DOMAIN p.metrics
                         /\ \A k \in DOMAIN p.metrics : new[n][k] = p.metrics[k]
                    ELSE new[n] = old[n]]_vars

\* a key was registered with one payload, another key after it, and the first
\* key again with a different payload; summary() has two rows
C6_Witness ==
    /\ CallOp(ret) = "register" /\ CallExc(ret) = None /\ registry_kind = "disk"
    /\ Len(_runs.keys) = 2
    /\ _runs.keys[1] = RunKey(CallArgs(ret)[1], CallArgs(ret)[2])
    /\ _runs.val[_runs.keys[1]].metrics = [k \in {"RMSE"} |-> 2]
    /\ _runs.val[_runs.keys[2]].metrics = [k \in {"RMSE"} |-> 1]
    /\ nregs = 3

\* C7: get_best returns an entry that carries the metric and whose value is
\* extremal over the entries carrying it; the first row of the table compare
\* returns is such an entry.
C7_Original ==
    /\ (CallOp(ret) = "get_best" /\ CallExc(ret) = None) =>
          LET metric == CallArgs(ret)[1]
              best == CallValue(ret).name
          IN  /\ best \in Carriers(metric)
              /\ CallValue(ret).metrics = _metrics.val[best]
              /\ Extremal(_metrics.val[best][metric],
                          {_metrics.val[n][metric] : n \in Carriers(metric)},
                          CallArgs(ret)[2])
    /\ (CallOp(ret) = "compare" /\ CallExc(ret) = None) =>
          LET metric == CallArgs(ret)[1]
              df == CallValue(ret)
          IN  /\ metric \in DOMAIN df[1]
              /\ Extremal(df[1][metric],
                          {df[n][metric] : n \in CarrierRows(df, metric)},
                          CallArgs(ret)[2])

\* C8: when no entry carries the requested metric (in particular when nothing
\* is registered), get_best, compare and select_best raise, return nothing,
\* and leave both registries, the run directories and the champion directory
\* as they were.
C8_NoCandidateRaises ==
    /\ [][(CallOp(ret') = "get_best" /\ Carriers(CallArgs(ret')[1]) = {}) =>
            /\ CallExc(ret') # None /\ CallValue(ret') = None
            /\ UNCHANGED <<memVars, _runs, disk, best_dir>>]_vars
    /\ [][(CallOp(ret') \in {"compare", "select_best"}
           /\ CarrierRows(summary(_runs), CallArgs(ret')[1]) = {}) =>
            /\ CallExc(ret') # None /\ CallExc(ret') # "FileNotFoundError" /\ CallValue(ret') = None
            /\ UNCHANGED <<memVars, _runs, disk, best_dir>>]_vars

\* select_best for a metric no entry carries, with a champion of another
\* metric already promoted
C8_Witness ==
    /\ CallOp(ret) = "select_best" /\ CallArgs(ret)[1] = "MAE"
    /\ CallExc(ret) = "KeyError: Metric not found"
    /\ _runs.keys # <<>>
    /\ DOMAIN best_dir # {}

\* C9: no operation removes a name and register adds its name, so the names
\* never registered are the names absent from _models; for such a name get,
\* get_metadata and get_metrics raise the not-found KeyError, return nothing
\* and leave the registry unchanged.
C9_LookupOfUnknownRaises ==
    /\ [][/\ DOMAIN _models.val \subseteq DOMAIN _models'.val
          /\ (CallOp(ret') = "register" /\ registry_kind = "memory") =>
                CallArgs(ret')[1] \in DOMAIN _models'.val
          /\ (CallOp(ret') # "register") => DOMAIN _models'.val = DOMAIN _models.val]_vars
    /\ [][(CallOp(ret') \in {"get", "get_metadata", "get_metrics"}
           /\ CallArgs(ret')[1] \notin DOMAIN _models.val) =>
            /\ CallExc(ret') = KeyErrorNotFound
            /\ CallValue(ret') = None
            /\ UNCHANGED memVars]_vars

\* get_metrics("B") raised while "A" is registered and has metrics
C9_Witness ==
    /\ CallOp(ret) = "get_metrics" /\ CallArgs(ret) = <<"B">>
    /\ CallExc(ret) = KeyErrorNotFound
    /\ HasKey(_models, "A") /\ ~HasKey(_models, "B")
    /\ DOMAIN _metrics.val["A"] # {}

\* the run directories of the entries compare may rank first
FirstPaths(metric, minimize) ==
    {df[1]["path"] : df \in compare(_runs, metric, minimize).tables}

\* C10: a select_best call that gets a table raises FileNotFoundError exactly
\* when the run directory of its first row is not on disk, and then the
\* champion directory is unchanged; otherwise it raises nothing.
C10_MissingArtifactRaises ==
    [][(CallOp(ret') = "select_best"
        /\ compare(_runs, CallArgs(ret')[1], CallArgs(ret')[2]).exc = None) =>
          LET paths == FirstPaths(CallArgs(ret')[1], CallArgs(ret')[2])
          IN  /\ (paths \cap DOMAIN disk = {}) => CallExc(ret') = "FileNotFoundError"
              /\ (paths \subseteq DOMAIN disk) => CallExc(ret') = None
              /\ CallExc(ret') \in {None, "FileNotFoundError"}
              /\ (CallExc(ret') = "FileNotFoundError") =>
                    /\ paths \ DOMAIN disk # {}
                    /\ best_dir' = best_dir
                    /\ UNCHANGED <<_runs, disk>>]_vars

\* select_best raised for a missing run directory while the champion folder
\* it would have replaced is in place
C10_Witness ==
    /\ CallOp(ret) = "select_best" /\ CallExc(ret) = "FileNotFoundError"
    /\ Len(_runs.keys) = 1
    /\ DOMAIN disk = {}
    /\ LET e == _runs.val[_runs.keys[1]]
       IN  FolderName(e.name, e.run_id) \in DOMAIN best_dir

\* the run directory of entry e holds the artifact, the metrics record and
\* the config record of the registration that wrote e
Retrievable(e, dsk) ==
    /\ e.path \in DOMAIN dsk
    /\ {e.model_file, "metrics.json", "config.json"} \subseteq DOMAIN dsk[e.path]
    /\ dsk[e.path][e.model_file] = e.model
    /\ dsk[e.path]["metrics.json"] = JsonDumps(e.metrics)
    /\ dsk[e.path]["config.json"] = JsonDumps(e.config)

AllRetrievable(rs, dsk) == \A k \in DOMAIN rs.val : Retrievable(rs.val[k], dsk)

\* C11: a register() call, whether it succeeds, overwrites or fails
\* part-way, keeps every entry of the table retrievable: its run directory
\* holds the model, metrics and config of the registration that wrote the
\* entry; a call that raises leaves the table as it was.
C11_Original ==
    [][(CallOp(ret') = "register" /\ registry_kind = "disk") =>
          /\ AllRetrievable(_runs, disk) => AllRetrievable(_runs', disk')
          /\ CallExc(ret') # None => _runs' = _runs]_vars

(***************************************************************************)
(* Claims about data preparation                                           *)
(***************************************************************************)
PreparedBy == {"prepare_data_from_df"} \cup PrepareFunctions

\* the call that returned is a data preparation
Prepared == CallOp(ret) \in PreparedBy

\* the train and test slices of the returned bundle
TrainRows == IF CallOp(ret) = "prepare_data_from_df" THEN CallValue(ret).train_df
             ELSE CallValue(ret).arima_train

TestRows == IF CallOp(ret) = "prepare_data_from_df" THEN CallValue(ret).test_df
            ELSE CallValue(ret).arima_test

\* C12: a preparation whose configured train end is not strictly before the
\* configured test start raises; a bundle that is returned has its last train
\* timestamp strictly before its first test timestamp.
C12_Original ==
    Prepared =>
        LET cfg == CallArgs(ret)[2]
        IN  /\ cfg.train_end >= cfg.test_start => CallExc(ret) # None
            /\ CallExc(ret) = None =>
                  TrainRows[Len(TrainRows)].date < TestRows[1].date

\* C13: a run whose train and test ranges overlap does nothing but raise to
\* its caller: every step it takes inside the loop ends run() with an
\* exception, with nothing registered and no result recorded.
C13_Original ==
    [][(pc = "loop" /\ data_overlap) =>
          /\ pc' = "idle"
          /\ CallOp(ret') = "run" /\ CallExc(ret') # None
          /\ UNCHANGED <<_runs, disk>>]_vars

\* C14: two preparations of tables that differ only in a row of the test
\* range both fail or both succeed, and then return the same scaler, the
\* same scaled training values and the same training windows.
C14_Original ==
    CallOp(ret) = "twice" =>
        LET r1 == CallValue(ret)[1]
            r2 == CallValue(ret)[2]
        IN  /\ r1.exc = r2.exc
            /\ r1.exc = None =>
                  /\ r1.value.scaler = r2.value.scaler
                  /\ IF CallArgs(ret)[1] = "prepare_data_from_df"
                     THEN r1.value.train_scaled = r2.value.train_scaled
                     ELSE r1.value.lstm_train = r2.value.lstm_train

\* the call that returned is one of the three window builders
Windowed == CallOp(ret) \in SequenceFunctions

\* the pairs a window builder returned are the W-windows of the series, in
\* order, each with the item that follows it
PairsAreWindows(series, W, pairs) ==
    /\ Len(pairs.X) = Len(pairs.y)
    /\ \A k \in 1..Len(pairs.X) :
          /\ Len(pairs.X[k]) = W
          /\ \A j \in 1..W : pairs.X[k][j] = series[k + j - 1]
          /\ pairs.y[k] = series[k + W]

\* C15 as stated: for every series of length L and every window size W the
\* builder returns exactly L - W pairs, the i-th being series[i .. i+W-1]
\* with target series[i+W].
C15_Original ==
    Windowed =>
        LET series == CallArgs(ret)[1]
            W == CallArgs(ret)[2]
        IN  /\ CallExc(ret) = None
            /\ Len(CallValue(ret).X) = Len(series) - W
            /\ PairsAreWindows(series, W, CallValue(ret))

\* C15 amended: for a window size W >= 1 the builder returns exactly L - W
\* pairs when W <= L and none when W > L, the i-th pair being
\* series[i .. i+W-1] with target series[i+W]; for W = 0 the two
\* data_preparation builders raise and lstm.dataset's returns L pairs of
\* empty inputs.
C15_WindowsOfSeries ==
    Windowed =>
        LET series == CallArgs(ret)[1]
            W == CallArgs(ret)[2]
            L == Len(series)
        IN  IF W = 0 /\ CallOp(ret) # "dataset.create_sequences"
            THEN CallExc(ret) # None
            ELSE /\ CallExc(ret) = None
                 /\ Len(CallValue(ret).X) = IF W <= L THEN L - W ELSE 0
                 /\ PairsAreWindows(series, W, CallValue(ret))

C15_Witness ==
    /\ CallOp(ret) = "create_sequences"
    /\ CallArgs(ret) = << <<1, 3, 3, 1>>, 2 >>
    /\ CallExc(ret) = None
    /\ CallValue(ret).X = << <<1, 3>>, <<3, 3>> >>
    /\ CallValue(ret).y = <<3, 1>>

\* the call that returned is a preparation that builds the windows
Bundled == CallOp(ret) \in PrepareFunctions

\* the scaled test values of the returned bundle
TestScaled == Transform(CallValue(ret).scaler, Column(CallValue(ret).arima_test))

\* C16: the test targets of a returned bundle are the scaled test values, one
\* per test observation and in order: no test observation is lost as a target.
C16_Original ==
    (Bundled /\ CallExc(ret) = None) => CallValue(ret).lstm_test.y = TestScaled

(***************************************************************************)
(* Claims about recursive_lstm_forecast                                    *)
(***************************************************************************)
Forecasted == CallOp(ret) = "recursive_lstm_forecast"

\* the seed without its first k items, followed by the first k of preds, cut
\* to the last W items
SeedThenPredictions(seed, preds, k) ==
    LET W == Len(seed)
    IN  [j \in 1..W |-> IF j + k <= W THEN seed[j + k] ELSE preds[j + k - W]]

\* C17: the model is called exactly N times and N values are returned, the
\* k-th being what the k-th call returned; the window of call k (from 0) has
\* the seed's length and is the seed without its first k items followed by
\* the k previous predictions (the last W of them once k >= W).
C17_WindowsSlide ==
    Forecasted =>
        LET outs == CallArgs(ret)[1]
            seed == CallArgs(ret)[2]
            N == CallArgs(ret)[3]
            preds == CallValue(ret).preds
            calls == CallValue(ret).calls
        IN  /\ Len(calls) = N
            /\ Len(preds) = N
            /\ \A k \in 0..(N - 1) :
                  /\ preds[k + 1] = outs[k + 1]
                  /\ Len(calls[k + 1]) = Len(seed)
                  /\ calls[k + 1] = SeedThenPredictions(seed, preds, k)

C17_Witness ==
    /\ Forecasted
    /\ CallArgs(ret) = << <<5, 7, 5>>, <<1, 3>>, 3 >>
    /\ CallValue(ret).preds = <<5, 7, 5>>
    /\ CallValue(ret).calls = << <<1, 3>>, <<3, 5>>, <<5, 7>> >>

\* C29: recursive_lstm_forecast leaves the caller's seed window as it was:
\* the same values at the same positions, for every horizon and every
\* sequence of model outputs.
C29_SeedUnchanged ==
    Forecasted => CallValue(ret).seed_window = CallArgs(ret)[2]

C29_Witness ==
    /\ Forecasted
    /\ CallArgs(ret)[3] = MaxSteps
    /\ CallArgs(ret)[2] = <<3, 1>>
    /\ CallValue(ret).calls[MaxSteps] # <<3, 1>>
    /\ CallValue(ret).seed_window = <<3, 1>>

(***************************************************************************)
(* Claims about the records of both registries                             *)
(***************************************************************************)
\* what the in-memory registry holds for a name
MemRecord(mo, md, me, name) ==
    [model |-> mo.val[name], metadata |-> md.val[name], metrics |-> me.val[name]]

\* the key the register call that just returned was for
RegisteredKey(call) ==
    IF registry_kind = "memory" THEN CallArgs(call)[1]
    ELSE RunKey(CallArgs(call)[1], CallArgs(call)[2])

\* C18: over any registry operation the registered keys only grow, and what
\* is stored for a key (model, metrics, config or metadata) changes only in a
\* register call for that key.
C18_Original ==
    [][/\ DOMAIN _models.val \subseteq DOMAIN _models'.val
       /\ DOMAIN _runs.val \subseteq DOMAIN _runs'.val
       /\ \A name \in DOMAIN _models.val :
             MemRecord(_models', _metadata', _metrics', name)
                   # MemRecord(_models, _metadata, _metrics, name)
                => CallOp(ret') = "register" /\ RegisteredKey(ret') = name
       /\ \A key \in DOMAIN _runs.val :
             _runs'.val[key] # _runs.val[key]
                => CallOp(ret') = "register" /\ RegisteredKey(ret') = key]_vars

(***************************************************************************)
(* Claims about run identifiers                                            *)
(***************************************************************************)
\* the run identifiers the registry has entries for
UsedRunIds == {_runs.val[key].run_id : key \in DOMAIN _runs.val}

\* C19: a run that has just started, before its first model, has a run
\* identifier that no entry of the registry carries, so nothing it registers
\* can replace the entry or the run directory of an earlier run.
C19_Original ==
    (pc = "loop" /\ idx = 1 /\ registry_kind = "disk") => run_id \notin UsedRunIds

(***************************************************************************)
(* Claims about the window size of a data preparation                      *)
(***************************************************************************)
\* the rows of the table that lie in the configured train range
TrainSlice(df, cfg) == Loc(SortedRows(df), cfg.train_start, cfg.train_end)

\* C20: a preparation with a window size below 1, or not strictly below the
\* number of training observations, raises; a bundle that is returned has at
\* least one training window and every window has the window size's length.
C20_Original ==
    Bundled =>
        LET df == CallArgs(ret)[1]
            cfg == CallArgs(ret)[2]
            W == CallArgs(ret)[3]
        IN  /\ (W < 1 \/ W >= Len(TrainSlice(df, cfg))) => CallExc(ret) # None
            /\ CallExc(ret) = None =>
                  /\ CallValue(ret).lstm_train.X # <<>>
                  /\ \A k \in 1..Len(CallValue(ret).lstm_train.X) :
                        Len(CallValue(ret).lstm_train.X[k]) = W

(***************************************************************************)
(* Claims about the errors of the model stages                             *)
(***************************************************************************)
\* the stages whose underlying procedure is a model's own
ModelStages == {"build", "train", "forecast"}

\* the messages over an underlying error e that name a family and a stage
MessagesNaming(family, stage) ==
    IF family = "arima"
    THEN CASE stage = "build" -> {"ARIMA building failed: e"}
           [] stage = "train" -> {"ARIMA training failed: e"}
           [] OTHER -> {"ARIMA forecasting failed: e"}
    ELSE CASE stage = "build" -> {"LSTM building failed: e", "LSTM model building failed: e"}
           [] stage = "train" -> {"LSTM training failed: e", "LSTM model training failed: e"}
           [] OTHER -> {"LSTM forecasting failed: e", "LSTM model forecasting failed: e"}

\* what the family's sequence gives when the stage's procedure throws
RunFamily(family, stage, m, regfault) ==
    IF family = "arima" THEN _run_arima(stage, m, regfault)
    ELSE _run_lstm(stage, m, regfault)

\* the step of the loop in which the stage of the family threw
StageThrows(family, stage) ==
    /\ InLoop /\ models[idx] = family
    /\ ~(family = "arima" /\ data_overlap)
    /\ \E m \in EvalOutputs, rf \in PipelineFaults :
          LET r == RunFamily(family, stage, m, rf)
          IN  /\ caught' = r.exc
              /\ results' = DictSet(results, family, ErrorPayload(r.exc))

\* C21: when the build, fit or forecast procedure of a model throws, the
\* error recorded as the model's result has a message naming the model and
\* the stage, for both families and every stage.
C21_Original ==
    [][\A family \in Known, stage \in ModelStages :
          StageThrows(family, stage)
             => results'.val[family].error \in MessagesNaming(family, stage)]_vars

(***************************************************************************)
(* Claims about the numeric helpers                                        *)
(***************************************************************************)
\* the positions at which the observed value is not 0
NonZero(y_true) == {i \in 1..Len(y_true) : y_true[i] # 0}

RECURSIVE ProductOver(_, _)
ProductOver(y_true, S) ==
    IF S = {} THEN 1
    ELSE LET i == CHOOSE x \in S : TRUE
         IN  Abs(y_true[i]) * ProductOver(y_true, S \ {i})

\* the sum over S of |y_true - y_pred| / |y_true|, times the product of the
\* |y_true| over all of S
RECURSIVE ScaledErrors(_, _, _, _)
ScaledErrors(y_true, y_pred, S, all) ==
    IF S = {} THEN 0
    ELSE LET i == CHOOSE x \in S : TRUE
         IN  Abs(y_true[i] - y_pred[i]) * ProductOver(y_true, all \ {i})
                + ScaledErrors(y_true, y_pred, S \ {i}, all)

\* C22: mape is 100 times the average of |(y_true - y_pred) / y_true| over the
\* positions where y_true is not 0, and is nan, not zero and not an error,
\* when y_true is 0 at every position.
C22_Original ==
    CallOp(ret) \in MapeFunctions =>
        LET y_true == CallArgs(ret)[1]
            y_pred == CallArgs(ret)[2]
            S == NonZero(y_true)
            v == CallValue(ret)
        IN  /\ CallExc(ret) = None
            /\ IF S = {} THEN v = NanF
               ELSE /\ v[1] = "num"
                    /\ v[2] * ProductOver(y_true, S) * Cardinality(S)
                          = 100 * ScaledErrors(y_true, y_pred, S, S) * v[3]

C24_ConsecutiveBusinessDays ==
    CallOp(ret) = "build_forecast_index" =>
        LET last_date == CallArgs(ret)[1]
            N == CallArgs(ret)[2]
            index == CallValue(ret)
        IN  /\ Len(index) = N
            /\ \A i \in 1..N : index[i] > last_date /\ Weekday(index[i]) \in 0..4
            /\ \A i \in 1..(N - 1) : index[i] < index[i + 1]
            /\ N > 0 =>
                  \A d \in (last_date + 1)..index[N] :
                      Weekday(d) \in 0..4 => \E i \in 1..N : index[i] = d

C24_Witness ==
    /\ CallOp(ret) = "build_forecast_index"
    /\ CallArgs(ret) = <<4, 3>>
    /\ CallValue(ret) = <<7, 8, 9>>

\* C27: train_lstm fits on the first int(0.9 * n) of the n training windows
\* and validates on the rest: the two parts share no window, together hold
\* every window once, and every validation window is later than every
\* fitting window.
C27_ChronologicalSplit ==
    CallOp(ret) = "train_lstm" =>
        LET X == CallArgs(ret)[1]
            n == Len(X)
            fit == CallValue(ret).X_t
            val == CallValue(ret).X_v
        IN  /\ 10 * Len(fit) <= 9 * n /\ 9 * n < 10 * (Len(fit) + 1)
            /\ \A i \in 1..Len(fit) : fit[i] = X[i]
            /\ Range(fit) \cap Range(val) = {}
            /\ Range(fit) \cup Range(val) = Range(X)
            /\ Len(fit) + Len(val) = n
            /\ \A a \in Range(fit), b \in Range(val) : a < b
            /\ CallValue(ret).y_t = fit /\ CallValue(ret).y_v = val

C27_Witness ==
    /\ CallOp(ret) = "train_lstm"
    /\ Len(CallArgs(ret)[1]) = 11
    /\ CallValue(ret).X_t = <<1, 2, 3, 4, 5, 6, 7, 8, 9>>
    /\ CallValue(ret).X_v = <<10, 11>>

(***************************************************************************)
(* Claims about ModelComparator.select_best                                *)
(***************************************************************************)
\* C28: a select_best that returns has copied the run directory of the entry
\* that compare ranks first, for the configured metric and direction, into
\* the champion folder, and returns that entry's descriptor: its name, its
\* run_id and its source path.
C28_Original ==
    [][(CallOp(ret') = "select_best" /\ CallExc(ret') = None) =>
          \E df \in compare(_runs, CallArgs(ret')[1], CallArgs(ret')[2]).tables :
             LET best_row == df[1]
                 dest == FolderName(best_row["name"], best_row["run_id"])
             IN  /\ dest \in DOMAIN best_dir'
                 /\ best_row["path"] \in DOMAIN disk
                 /\ best_dir'[dest] = disk[best_row["path"]]
                 /\ CallValue(ret') # None
                 /\ CallValue(ret').name = best_row["name"]
                 /\ CallValue(ret').run_id = best_row["run_id"]
                 /\ CallValue(ret').source_path = best_row["path"]]_vars

\* C30: when some registered entry has a computable value for the metric,
\* the entry get_best returns, and the first row of the table compare
\* returns, has a computable value for it, not NaN.
C30_Original ==
    /\ (CallOp(ret) = "get_best" /\ CallExc(ret) = None) =>
          LET metric == CallArgs(ret)[1]
          IN  (\E n \in Carriers(metric) : _metrics.val[n][metric] # NaN)
                 => CallValue(ret).metrics[metric] # NaN
    /\ (CallOp(ret) = "compare" /\ CallExc(ret) = None) =>
          LET metric == CallArgs(ret)[1]
              df == CallValue(ret)
          IN  (\E n \in CarrierRows(df, metric) : df[n][metric] # NaN)
                 => (metric \in DOMAIN df[1] /\ df[1][metric] # NaN)

(***************************************************************************)
(* Claims about the market data classes                                    *)
(***************************************************************************)
MarketCall(call) == CallOp(call) = "market.run"

\* the tickers whose table the run that returned wrote to a CSV
Stored(call) ==
    LET raw == CallArgs(call)[2]
    IN  IF ~CallValue(call).downloaded \/ CallExc(call) = "Yahoo Finance returned no data."
        THEN {}
        ELSE IF market_kind = "service" THEN Range(assets)
        ELSE {t \in Range(assets) : _extract_and_format(raw, t).rows # <<>>}

\* C25: after a run(force=True) that returned and stored a CSV for every
\* configured ticker, a run(force=False) asks the provider for nothing and
\* returns as many rows as that run returned; and any run uses the stored
\* CSVs exactly when force is false and every configured ticker has one,
\* and downloads otherwise.
C25_Original ==
    [][MarketCall(ret') =>
          /\ (/\ MarketCall(ret) /\ CallArgs(ret)[1] /\ CallExc(ret) = None
              /\ Stored(ret) = Range(assets)
              /\ ~CallArgs(ret')[1])
                => /\ ~CallValue(ret').downloaded
                   /\ CallExc(ret') = None
                   /\ Len(CallValue(ret').table.rows) = Len(CallValue(ret).table.rows)
          /\ ~CallValue(ret').downloaded
                <=> (~CallArgs(ret')[1] /\ Cached(output_dir, assets))]_vars

\* the configured tickers for which the downloaded table has no usable data
Failing(raw) ==
    {t \in Range(assets) : raw.index = <<>> \/ raw.col[t] # "ok" \/ t \in raw.missing}

RowsOfTicker(table, t) == {i \in 1..Len(table.rows) : table.rows[i].ticker = t}

\* C26: in a run that downloads, an asset whose data is missing or whose
\* extraction fails gives no row and gets no CSV, the rows of every other
\* asset are returned, and no exception is raised, also when every asset
\* fails (the table is then empty).
C26_Original ==
    [][(MarketCall(ret') /\ CallValue(ret').downloaded) =>
          LET raw == CallArgs(ret')[2]
              table == CallValue(ret').table
          IN  /\ CallExc(ret') = None
              /\ \A t \in Failing(raw) :
                    /\ RowsOfTicker(table, t) = {}
                    /\ t \in DOMAIN output_dir' =>
                          t \in DOMAIN output_dir /\ output_dir'[t] = output_dir[t]
              /\ \A t \in Range(assets) \ Failing(raw) :
                    Cardinality(RowsOfTicker(table, t)) = Len(raw.index)]_vars

====
